---- MODULE Spec2Model ----
(***************************************************************************)
(* A model of IbPy-Get-Historical-SMA: the trading calendar, the bar-size  *)
(* parser, the window resolution (calculate_durationStr), the bar          *)
(* aggregation (calculate_historical_sma) and the request life cycle of    *)
(* Security.get_historical_sma.                                            *)
(*                                                                         *)
(* Representation.  A datetime.date is its day number counted from         *)
(* 2000-01-01 (day 0, a Saturday).  A datetime.datetime is the number of   *)
(* seconds from 2000-01-01 00:00:00 on the wall clock of its own zone; a   *)
(* datetime.time and a timedelta are numbers of seconds.  Microseconds and *)
(* daylight-saving transitions are not modelled.  Python str values are    *)
(* TLA+ strings, read character by character with SubSeq.                  *)
(***************************************************************************)
EXTENDS Integers, Sequences, FiniteSets, TLC

VARIABLES
    exchange_info_source, \* the holiday entries written in exchange_info.py
    trading_holidays,    \* Security.trading_holidays: sequence of <<date, kind>>
    threads,             \* the threads inside MyIb.generate_new_reqId
    now,                 \* the machine's clock: datetime.now(), machine-local wall clock
    local_timezone,      \* tzlocal.get_localzone(): seconds the machine's wall clock
                         \* is ahead of the exchange's
    reqId,               \* MyIb.reqId
    pc,                  \* where the caller of the boundary function stands
    length,              \* argument length
    barSizeSetting,      \* argument barSizeSetting, as the caller spelled it
    ohlc,                \* self.ohlc
    endDateTime_arg,     \* argument endDateTime, as the caller passed it
    endDateTime,         \* eDT_for_calculate_durationStr (exchange wall clock)
    startDateTime,       \* info_span_start_dt returned by calculate_durationStr
    durationStr,         \* durationStr returned by calculate_durationStr
    historicalReq_date_str_fmt, \* self.historicalReq_date_str_fmt
    request,             \* the reqHistoricalData messages handed to the connection
    delivered,           \* the HistoricalData messages the connection has delivered
    historical_data,     \* self.historical_data
    have_we_received_all_historical_data_from_ib,
    callback_raised,     \* the exception the last callback let escape, or None
    result               \* what the boundary function returned or raised

vars == <<exchange_info_source, trading_holidays, threads, now, local_timezone,
          reqId, pc, length, barSizeSetting, ohlc, endDateTime_arg, endDateTime, startDateTime, durationStr, historicalReq_date_str_fmt,
          request, delivered, historical_data,
          have_we_received_all_historical_data_from_ib, callback_raised, result>>

None == "None"

-----------------------------------------------------------------------------
(* datetime arithmetic (Python's datetime module, proleptic Gregorian)     *)

SecsPerDay == 24 * 3600

IsLeap(y) == (y % 4 = 0 /\ y % 100 # 0) \/ y % 400 = 0

DaysInMonth(y, m) ==
    IF m = 2 THEN (IF IsLeap(y) THEN 29 ELSE 28)
    ELSE IF m \in {4, 6, 9, 11} THEN 30 ELSE 31

\* days from 2000-01-01 to y-01-01, for 2000 <= y <= 2100
DaysBeforeYear(y) == (y - 2000) * 365 + ((y - 2000) + 3) \div 4

RECURSIVE DaysBeforeMonth(_, _)
DaysBeforeMonth(y, m) ==
    IF m = 1 THEN 0 ELSE DaysBeforeMonth(y, m - 1) + DaysInMonth(y, m - 1)

\* datetime.date(y, m, d)
ToDate(y, m, d) == DaysBeforeYear(y) + DaysBeforeMonth(y, m) + (d - 1)

\* date.year
YearOf(day) ==
    LET c == day \div 1461
        r == day % 1461
    IN  2000 + 4 * c + (IF r < 366 THEN 0 ELSE 1 + (r - 366) \div 365)

RECURSIVE MonthFrom(_, _, _)
MonthFrom(y, m, rest) ==
    IF rest < DaysInMonth(y, m) THEN m ELSE MonthFrom(y, m + 1, rest - DaysInMonth(y, m))

\* date.month
MonthOf(day) == MonthFrom(YearOf(day), 1, day - DaysBeforeYear(YearOf(day)))

\* date.day
DayOf(day) ==
    day - DaysBeforeYear(YearOf(day)) - DaysBeforeMonth(YearOf(day), MonthOf(day)) + 1

\* date.weekday(): Monday = 0 ... Sunday = 6
weekday(day) == (day + 5) % 7

\* datetime.date(), datetime.time(), datetime.combine(date, time)
DateOf(dt) == dt \div SecsPerDay
TimeOf(dt) == dt % SecsPerDay
combine(day, t) == day * SecsPerDay + t

\* dttime(hour=h, minute=m, second=s)
dttime(h, m, s) == h * 3600 + m * 60 + s

-----------------------------------------------------------------------------
(* exchange_info.py                                                        *)

exchange_opening_time == dttime(9, 30, 0)
exchange_normal_close_time == dttime(16, 0, 0)
exchange_early_close_time == dttime(13, 0, 0)

FullDay == "full day"
EarlyClose == "early close"

\* the literal table of exchange_info.py: <<month, day, year>> of each
\* 'm/d/YYYY' date string, with its kind
trading_holidays_literal == <<
    <<<<1, 1, 2010>>, FullDay>>, <<<<1, 18, 2010>>, FullDay>>,
    <<<<2, 15, 2010>>, FullDay>>, <<<<4, 4, 2010>>, FullDay>>,
    <<<<5, 31, 2010>>, FullDay>>, <<<<7, 5, 2010>>, FullDay>>,
    <<<<9, 6, 2010>>, FullDay>>, <<<<11, 25, 2010>>, FullDay>>,
    <<<<11, 26, 2010>>, EarlyClose>>, <<<<12, 24, 2010>>, FullDay>>,
    <<<<1, 17, 2011>>, FullDay>>, <<<<2, 21, 2011>>, FullDay>>,
    <<<<4, 22, 2011>>, FullDay>>, <<<<5, 30, 2011>>, FullDay>>,
    <<<<7, 4, 2011>>, FullDay>>, <<<<9, 5, 2011>>, FullDay>>,
    <<<<11, 24, 2011>>, FullDay>>, <<<<11, 25, 2011>>, EarlyClose>>,
    <<<<12, 26, 2011>>, FullDay>>,
    <<<<1, 2, 2012>>, FullDay>>, <<<<1, 16, 2012>>, FullDay>>,
    <<<<2, 20, 2012>>, FullDay>>, <<<<4, 6, 2012>>, FullDay>>,
    <<<<5, 28, 2012>>, FullDay>>, <<<<7, 3, 2012>>, EarlyClose>>,
    <<<<7, 4, 2012>>, FullDay>>, <<<<9, 3, 2012>>, FullDay>>,
    <<<<11, 22, 2012>>, FullDay>>, <<<<11, 23, 2012>>, EarlyClose>>,
    <<<<12, 24, 2012>>, EarlyClose>>, <<<<12, 25, 2012>>, FullDay>>,
    <<<<1, 1, 2013>>, FullDay>>, <<<<1, 21, 2013>>, FullDay>>,
    <<<<2, 18, 2013>>, FullDay>>, <<<<3, 29, 2013>>, FullDay>>,
    <<<<5, 27, 2013>>, FullDay>>, <<<<7, 3, 2013>>, EarlyClose>>,
    <<<<7, 4, 2013>>, FullDay>>, <<<<9, 2, 2013>>, FullDay>>,
    <<<<11, 28, 2013>>, FullDay>>, <<<<11, 29, 2013>>, EarlyClose>>,
    <<<<12, 24, 2013>>, EarlyClose>>, <<<<12, 25, 2013>>, FullDay>>,
    <<<<1, 1, 2014>>, FullDay>>, <<<<1, 20, 2014>>, FullDay>>,
    <<<<2, 17, 2014>>, FullDay>>, <<<<4, 18, 2014>>, FullDay>>,
    <<<<5, 26, 2014>>, FullDay>>, <<<<7, 3, 2014>>, EarlyClose>>,
    <<<<7, 4, 2014>>, FullDay>>, <<<<9, 1, 2014>>, FullDay>>,
    <<<<11, 27, 2014>>, FullDay>>, <<<<11, 28, 2014>>, EarlyClose>>,
    <<<<12, 24, 2014>>, EarlyClose>>, <<<<12, 25, 2014>>, FullDay>>,
    <<<<1, 1, 2015>>, FullDay>>, <<<<1, 19, 2015>>, FullDay>>,
    <<<<2, 16, 2015>>, FullDay>>, <<<<4, 3, 2015>>, FullDay>>,
    <<<<5, 25, 2015>>, FullDay>>, <<<<7, 3, 2015>>, FullDay>>,
    <<<<9, 7, 2015>>, FullDay>>, <<<<11, 26, 2015>>, FullDay>>,
    <<<<11, 27, 2015>>, EarlyClose>>, <<<<12, 24, 2015>>, EarlyClose>>,
    <<<<12, 25, 2015>>, FullDay>>,
    <<<<1, 1, 2016>>, FullDay>>, <<<<1, 18, 2016>>, FullDay>>,
    <<<<2, 15, 2016>>, FullDay>>, <<<<3, 25, 2016>>, FullDay>>,
    <<<<5, 30, 2016>>, FullDay>>, <<<<7, 3, 2016>>, EarlyClose>>,
    <<<<7, 4, 2016>>, FullDay>>, <<<<9, 5, 2016>>, FullDay>>,
    <<<<11, 25, 2016>>, EarlyClose>>, <<<<12, 26, 2016>>, FullDay>> >>

\* convert_trading_holiday_datestrings_into_date_objects on well-formed
\* entries: strptime of the zero-padded 'mm/dd/YYYY', the kind kept as is
convert_trading_holiday_datestrings_into_date_objects(holidays) ==
    [i \in DOMAIN holidays |->
        <<ToDate(holidays[i][1][3], holidays[i][1][1], holidays[i][1][2]),
          holidays[i][2]>>]

\* exchange_info.trading_holidays after the module has run
configured_trading_holidays ==
    convert_trading_holiday_datestrings_into_date_objects(trading_holidays_literal)

-----------------------------------------------------------------------------
(* helper_functions.py: the trading calendar                               *)

\* the first entry of the table whose date is mydate (the for loops of
\* _is_date_a_trading_day and _is_date_a_trading_holiday stop at the first
\* match), 0 when the loop runs to its else branch
FirstMatch(mydate, holidays) ==
    LET hits == {i \in DOMAIN holidays : holidays[i][1] = mydate}
    IN  IF hits = {} THEN 0 ELSE CHOOSE i \in hits : \A j \in hits : i <= j

\* a variant that looks at the holiday table only
_is_date_a_trading_day_by_table_only(mydate, holidays) ==
    ~\E i \in DOMAIN holidays : holidays[i] = <<mydate, FullDay>>

\* _is_date_a_trading_day; a datetime argument is passed as its date (line 299)
_is_date_a_trading_day(mydate, holidays) ==
    LET myweekday == weekday(mydate)
    IN  IF myweekday = 5 \/ myweekday = 6 THEN FALSE
        ELSE LET i == FirstMatch(mydate, holidays)
             IN  IF i = 0 THEN TRUE
                 ELSE IF holidays[i][2] = FullDay THEN FALSE ELSE TRUE

\* the default False of return_true_for_one_holiday_type_only
AnyType == "False"

\* _is_date_a_trading_holiday; a datetime argument is passed as its date (line 319)
_is_date_a_trading_holiday(mydate, holidays, return_true_for_one_holiday_type_only) ==
    LET i == FirstMatch(mydate, holidays)
    IN  IF i = 0 THEN FALSE
        ELSE IF return_true_for_one_holiday_type_only = AnyType THEN TRUE
        ELSE holidays[i][2] = return_true_for_one_holiday_type_only

_does_datetime_fall_during_trading_hours(d, holidays) ==
    IF ~_is_date_a_trading_day(DateOf(d), holidays) THEN FALSE
    ELSE IF _is_date_a_trading_holiday(DateOf(d), holidays, EarlyClose)
         THEN exchange_opening_time <= TimeOf(d) /\ TimeOf(d) <= exchange_early_close_time
         ELSE exchange_opening_time <= TimeOf(d) /\ TimeOf(d) <= exchange_normal_close_time

\* _get_previous_trading_day; d is the date of the argument, the result a date
RECURSIVE _get_previous_trading_day(_, _)
_get_previous_trading_day(d, holidays) ==
    IF _is_date_a_trading_day(d - 1, holidays) THEN d - 1
    ELSE _get_previous_trading_day(d - 1, holidays)

_calculate_most_recent_trading_day_endtime(d, holidays) ==
    LET close_time ==
            IF _is_date_a_trading_holiday(DateOf(d), holidays, EarlyClose)
            THEN exchange_early_close_time ELSE exchange_normal_close_time
        previous_trading_day == _get_previous_trading_day(DateOf(d), holidays)
    IN  IF /\ _is_date_a_trading_day(DateOf(d), holidays)
           /\ ~_does_datetime_fall_during_trading_hours(d, holidays)
           /\ TimeOf(d) > close_time
        THEN combine(DateOf(d), close_time)
        ELSE IF _is_date_a_trading_holiday(previous_trading_day, holidays, EarlyClose)
             THEN combine(previous_trading_day, exchange_early_close_time)
             ELSE combine(previous_trading_day, exchange_normal_close_time)

-----------------------------------------------------------------------------
(* helper_functions.py: the bar-size parser                                *)

Digits == {"0", "1", "2", "3", "4", "5", "6", "7", "8", "9"}
Whitespace == {" ", "\t", "\n"}

CharAt(s, i) == SubSeq(s, i, i)

\* str.strip()
RECURSIVE lstrip(_)
lstrip(s) ==
    IF Len(s) > 0 /\ CharAt(s, 1) \in Whitespace THEN lstrip(SubSeq(s, 2, Len(s))) ELSE s

RECURSIVE rstrip(_)
rstrip(s) ==
    IF Len(s) > 0 /\ CharAt(s, Len(s)) \in Whitespace
    THEN rstrip(SubSeq(s, 1, Len(s) - 1)) ELSE s

strip(s) == rstrip(lstrip(s))

\* int() of a string of decimal digits
RECURSIVE int(_)
int(s) ==
    IF Len(s) = 0 THEN 0
    ELSE 10 * int(SubSeq(s, 1, Len(s) - 1))
         + (CHOOSE v \in 0..9 : CharAt("0123456789", v + 1) = CharAt(s, Len(s)))

AllDigits(s) == \A i \in 1..Len(s) : CharAt(s, i) \in Digits

\* the alternation of the pattern at line 189
barSizeSetting_types == {"sec", "secs", "min", "mins", "hour", "day"}

\* re.fullmatch('(\d{1,2}) (sec|secs|min|mins|hour|day)', s): the set of
\* <<group 1, group 2>> of the ways s matches (at most one)
fullmatch(s) ==
    {<<SubSeq(s, 1, n), SubSeq(s, n + 2, Len(s))>> : n \in
        {k \in 1..2 : /\ Len(s) >= k + 2
                      /\ AllDigits(SubSeq(s, 1, k))
                      /\ CharAt(s, k + 1) = " "
                      /\ SubSeq(s, k + 2, Len(s)) \in barSizeSetting_types}}

Raised(e) == [ok |-> FALSE, error |-> e]
Returned(v) == [ok |-> TRUE, value |-> v]

InvalidBarSizeSetting == "Exception: Invalid barSizeSetting"

\* the ending s added or removed, lines 195-198
normalise_type(barSizeSetting_value, barSizeSetting_type) ==
    LET last == CharAt(barSizeSetting_type, Len(barSizeSetting_type))
        t1 == IF barSizeSetting_value = 1 /\ last = "s"
              THEN SubSeq(barSizeSetting_type, 1, Len(barSizeSetting_type) - 1)
              ELSE barSizeSetting_type
    IN  IF barSizeSetting_value > 1 /\ CharAt(t1, Len(t1)) # "s" THEN t1 \o "s" ELSE t1

_parse_barSizeSetting(text) ==
    LET s == strip(text)
        match == fullmatch(s)
    IN  IF match = {} THEN Raised(InvalidBarSizeSetting)
        ELSE LET g == CHOOSE m \in match : TRUE
                 barSizeSetting_value == int(g[1])
             IN  Returned(<<barSizeSetting_value,
                            normalise_type(barSizeSetting_value, g[2])>>)

-----------------------------------------------------------------------------
(* helper_functions.py: the start of the window                            *)

\* The while loop of _x_trading_days_ago_starts_on_this_date, lines 215-218.
\* WalkBackSteps runs at most fuel iterations of it and returns
\* <<running_day, running_count_of_trading_days_encountered>>; WalkBack runs
\* the loop to its end, LoopChunk iterations at a time (the chunking only
\* keeps the depth of evaluation small: the result does not depend on it).
LoopChunk == 4 * 4

RECURSIVE WalkBackSteps(_, _, _, _, _)
WalkBackSteps(running_day, running_count_of_trading_days_encountered, number_of_trading_days, holidays, fuel) ==
    IF running_count_of_trading_days_encountered < number_of_trading_days /\ fuel > 0
    THEN WalkBackSteps(running_day - 1,
                       IF _is_date_a_trading_day(running_day - 1, holidays)
                       THEN running_count_of_trading_days_encountered + 1
                       ELSE running_count_of_trading_days_encountered,
                       number_of_trading_days, holidays, fuel - 1)
    ELSE <<running_day, running_count_of_trading_days_encountered>>

RECURSIVE WalkBack(_, _, _, _)

\* a variant that takes the date of end itself as the first day walked to
WalkBack_counting_end_date(running_day, running_count_of_trading_days_encountered, number_of_trading_days, holidays) ==
    IF running_count_of_trading_days_encountered < number_of_trading_days
    THEN WalkBack(WalkBackSteps(running_day + 1, 0, 1, holidays, 1)[1],
                  WalkBackSteps(running_day + 1, 0, 1, holidays, 1)[2],
                  number_of_trading_days, holidays)
    ELSE running_day

WalkBack(running_day, running_count_of_trading_days_encountered, number_of_trading_days, holidays) ==
    IF running_count_of_trading_days_encountered < number_of_trading_days
    THEN LET s == WalkBackSteps(running_day, running_count_of_trading_days_encountered,
                                number_of_trading_days, holidays, LoopChunk)
         IN  WalkBack(s[1], s[2], number_of_trading_days, holidays)
    ELSE running_day

\* datetime.min.time()
midnight == dttime(0, 0, 0)

\* a variant that walks back calendar days
_x_calendar_days_ago_starts_on_this_date(number_of_trading_days, end, holidays) ==
    combine(DateOf(end) - number_of_trading_days, midnight)

_x_trading_days_ago_starts_on_this_date(number_of_trading_days, end, holidays) ==
    combine(WalkBack(DateOf(end), 0, number_of_trading_days, holidays), midnight)

\* the while True loop of _subtract_x_trading_secs_from_datetime, lines 266-281
RECURSIVE SubtractAcrossDays(_, _, _, _)
SubtractAcrossDays(previous_trading_day, running_count_of_daily_seconds, x_trading_secs, holidays) ==
    LET close_time ==
            IF _is_date_a_trading_holiday(previous_trading_day, holidays, EarlyClose)
            THEN exchange_early_close_time ELSE exchange_normal_close_time
        opening_bell_dt == combine(previous_trading_day, exchange_opening_time)
        closing_bell_dt == combine(previous_trading_day, close_time)
        total_sec_in_trading_day == closing_bell_dt - opening_bell_dt
    IN  IF running_count_of_daily_seconds + total_sec_in_trading_day < x_trading_secs
        THEN SubtractAcrossDays(
                 _get_previous_trading_day(previous_trading_day, holidays),
                 running_count_of_daily_seconds + total_sec_in_trading_day,
                 x_trading_secs, holidays)
        ELSE closing_bell_dt - (x_trading_secs - running_count_of_daily_seconds)

\* a variant that subtracts wall-clock seconds
_subtract_x_secs_from_datetime(d, x_trading_secs, holidays) == d - x_trading_secs

_subtract_x_trading_secs_from_datetime(d, x_trading_secs, holidays) ==
    LET endtime_within_trading_hrs ==
            IF ~_does_datetime_fall_during_trading_hours(d, holidays)
            THEN _calculate_most_recent_trading_day_endtime(d, holidays)
            ELSE d
        trading_day_start_dt ==
            combine(DateOf(endtime_within_trading_hrs), exchange_opening_time)
        total_secs_from_trading_day_start_time_until_endtime ==
            endtime_within_trading_hrs - trading_day_start_dt
    IN  IF x_trading_secs > total_secs_from_trading_day_start_time_until_endtime
        THEN SubtractAcrossDays(
                 _get_previous_trading_day(DateOf(endtime_within_trading_hrs), holidays),
                 total_secs_from_trading_day_start_time_until_endtime,
                 x_trading_secs, holidays)
        ELSE endtime_within_trading_hrs - x_trading_secs

UnboundSecondsCoefficient == "UnboundLocalError: seconds_coefficient"

\* the if/elif chain at lines 231-236: no branch binds seconds_coefficient
\* for any other type, and line 238 then raises UnboundLocalError
seconds_coefficient(barSizeSetting_type) ==
    IF barSizeSetting_type \in {"sec", "secs"} THEN Returned(1)
    ELSE IF barSizeSetting_type \in {"min", "mins"} THEN Returned(60)
    ELSE IF barSizeSetting_type = "hour" THEN Returned(3600)
    ELSE Raised(UnboundSecondsCoefficient)

_x_trading_secs_mins_or_hrs_ago_starts_at_this_time(len, barSizeSetting_value, barSizeSetting_type, end, holidays) ==
    LET c == seconds_coefficient(barSizeSetting_type)
    IN  IF ~c.ok THEN c
        ELSE Returned(_subtract_x_trading_secs_from_datetime(
                 end, len * barSizeSetting_value * c.value, holidays))

_calculate_start_datetime_of_historical_request(len, text, end, holidays) ==
    LET parsed == _parse_barSizeSetting(text)
    IN  IF ~parsed.ok THEN parsed
        ELSE IF parsed.value[2] = "day"
        THEN Returned(_x_trading_days_ago_starts_on_this_date(len, end, holidays))
        ELSE _x_trading_secs_mins_or_hrs_ago_starts_at_this_time(
                 len, parsed.value[1], parsed.value[2], end, holidays)

-----------------------------------------------------------------------------
(* dateutil.relativedelta, as calculate_durationStr uses it at line 92     *)

Min(a, b) == IF a <= b THEN a ELSE b
Max(a, b) == IF a >= b THEN a ELSE b
Abs(a) == IF a < 0 THEN 0 - a ELSE a
Sign(a) == IF a < 0 THEN 0 - 1 ELSE 1

\* relativedelta._set_months: <<years, months>>
_set_months(months) ==
    IF Abs(months) > 11
    THEN <<((months * Sign(months)) \div 12) * Sign(months),
           ((months * Sign(months)) % 12) * Sign(months)>>
    ELSE <<0, months>>

\* relativedelta(years=ym[1], months=ym[2]).__radd__(dt): the year and month
\* moved, the day clipped to the length of the month, the time kept
rd_radd(dt, ym) ==
    LET y0 == YearOf(DateOf(dt)) + ym[1]
        m0 == MonthOf(DateOf(dt)) + ym[2]
        y == IF m0 > 12 THEN y0 + 1 ELSE IF m0 < 1 THEN y0 - 1 ELSE y0
        m == IF m0 > 12 THEN m0 - 12 ELSE IF m0 < 1 THEN m0 + 12 ELSE m0
        day == Min(DaysInMonth(y, m), DayOf(DateOf(dt)))
    IN  combine(ToDate(y, m, day), TimeOf(dt))

\* the overshoot loop of relativedelta.__init__(dt1, dt2)
RECURSIVE rd_adjust_months(_, _, _)
rd_adjust_months(dt1, dt2, months) ==
    LET dtm == rd_radd(dt2, _set_months(months))
    IN  IF dt1 < dt2
        THEN (IF dt1 > dtm THEN rd_adjust_months(dt1, dt2, months + 1) ELSE months)
        ELSE (IF dt1 < dtm THEN rd_adjust_months(dt1, dt2, months - 1) ELSE months)

\* a variant that breaks the difference down into days and smaller only
relativedelta_in_days(dt1, dt2) ==
    [years |-> 0, months |-> 0,
     days |-> (dt1 - dt2) \div SecsPerDay + (IF (dt1 - dt2) % SecsPerDay = 0 THEN 0 ELSE 1),
     hours |-> 0 - (((dt2 - dt1) \div 3600) % 24),
     minutes |-> 0 - (((dt2 - dt1) \div 60) % 60),
     seconds |-> 0 - ((dt2 - dt1) % 60)]

\* relativedelta.relativedelta(dt1, dt2), after _fix()
relativedelta(dt1, dt2) ==
    LET months0 == (YearOf(DateOf(dt1)) - YearOf(DateOf(dt2))) * 12
                   + (MonthOf(DateOf(dt1)) - MonthOf(DateOf(dt2)))
        months == rd_adjust_months(dt1, dt2, months0)
        ym == _set_months(months)
        delta == dt1 - rd_radd(dt2, ym)
        s == Sign(delta)
        t == delta * s
    IN  [years |-> ym[1], months |-> ym[2],
         days |-> (t \div SecsPerDay) * s,
         hours |-> ((t \div 3600) % 24) * s,
         minutes |-> ((t \div 60) % 60) * s,
         seconds |-> (t % 60) * s]

-----------------------------------------------------------------------------
(* helper_functions.py: calculate_durationStr                              *)

\* '{} Y'.format(n) and the like: the number and the unit letter
Fmt(n, unit) == <<n, unit>>

\* a variant whose rows do not round up
durationStr_of_rounding_down(rd_obj) ==
    IF Abs(rd_obj.years) > 0 THEN Fmt(Abs(rd_obj.years), "Y")
    ELSE IF Abs(rd_obj.months) > 0 THEN Fmt(Abs(rd_obj.months), "M")
    ELSE IF Abs(rd_obj.days) >= 7 THEN Fmt(Abs(rd_obj.days) \div 7, "W")
    ELSE IF Abs(rd_obj.days) > 0 THEN Fmt(Abs(rd_obj.days), "D")
    ELSE Fmt(Abs(rd_obj.hours) * 3600 + Abs(rd_obj.minutes) * 60
             + Abs(rd_obj.seconds), "S")

\* the table at lines 93-116
durationStr_of(rd_obj) ==
    LET rd_yrs == Abs(rd_obj.years)
        rd_mo == Abs(rd_obj.months)
        rd_days == Abs(rd_obj.days)
        rd_hrs == Abs(rd_obj.hours)
        rd_mins == Abs(rd_obj.minutes)
        rd_secs == Abs(rd_obj.seconds)
    IN  IF rd_yrs > 0 THEN Fmt(rd_yrs + 1, "Y")
        ELSE IF rd_mo = 11 THEN Fmt(1, "Y")
        ELSE IF rd_mo > 0 THEN Fmt(rd_mo + 1, "M")
        ELSE IF rd_days = 27 THEN Fmt(1, "M")
        ELSE IF rd_days >= 6 THEN Fmt((rd_days \div 7) + 1, "W")
        ELSE IF rd_days > 0 THEN Fmt(rd_days + 1, "D")
        ELSE IF rd_hrs = 23 THEN Fmt(1, "D")
        ELSE Fmt(rd_hrs * 3600 + rd_mins * 60 + rd_secs, "S")

\* timedelta(seconds=2) at line 89
start_adjustment == dttime(0, 0, 2)

calculate_durationStr(len, text, end, holidays) ==
    LET start == _calculate_start_datetime_of_historical_request(len, text, end, holidays)
    IN  IF ~start.ok THEN start
        ELSE LET info_span_start_dt == start.value - start_adjustment
             IN  Returned(<<info_span_start_dt,
                            durationStr_of(relativedelta(info_span_start_dt, end))>>)

-----------------------------------------------------------------------------
(* The inputs the specifications draw from                                 *)

\* lengths 1..MaxLength with every text and every end instant, and a few
\* long lengths (with LongTexts and LongEnds) that reach the month and year
\* rows of the duration table
MaxLength == 3
LongLengths == {7, 18, 19, 22, 150, 240, 260}

\* a table with a full-day holiday and an early close in one week, an early
\* close on a Saturday and a full-day holiday on the following Monday
short_trading_holidays == <<
    <<ToDate(2016, 11, 24), FullDay>>, <<ToDate(2016, 11, 25), EarlyClose>>,
    <<ToDate(2016, 11, 26), EarlyClose>>, <<ToDate(2016, 11, 28), FullDay>>,
    <<ToDate(2016, 7, 1), EarlyClose>>, <<ToDate(2016, 3, 30), EarlyClose>> >>

HolidayTables == {configured_trading_holidays, short_trading_holidays, << >>}

EndDates == {
    ToDate(2016, 11, 28),   \* Monday after the early close of Friday 11/25
    ToDate(2016, 11, 25),   \* Friday, early close
    ToDate(2016, 7, 5),     \* Tuesday after Monday 7/4 (full day), Sunday 7/3
    ToDate(2016, 7, 3),     \* Sunday, listed as early close
    ToDate(2015, 12, 26),   \* Saturday after 12/25 (full day), 12/24 (early close)
    ToDate(2015, 12, 24),   \* Thursday, early close
    ToDate(2016, 3, 31),    \* Thursday, the last day of a 31-day month
    ToDate(2016, 3, 1) }    \* Tuesday after 29 February

EndTimes == {
    dttime(0, 0, 0), dttime(9, 30, 0), dttime(11, 0, 0), dttime(13, 0, 0),
    dttime(14, 30, 0), dttime(16, 0, 0), dttime(20, 15, 7) }

EndInstants == {combine(d, t) : d \in EndDates, t \in EndTimes}

BarSizeTexts == {
    "1 sec", "1 secs", "5 secs", "30 sec", "1 min", "1 mins", "5 mins", "30 min",
    "1 hour", "1 hours", "2 hour", "2 hours", "8 hours", "1 day", "1 days",
    "2 day", "10 day", " 1 sec", "1 sec ", "\t1 day\n", "01 sec", "01 secs",
    "01 day", "99 mins", "0 secs", "100 secs", "1  sec", "1sec", "1 Sec",
    "-1 sec", "5 weeks", "1 day!", "sec", "ab cd", "" }

LongTexts == {"1 day", "1 hour", "99 mins"}

LongEnds == {
    combine(ToDate(2016, 11, 28), dttime(16, 0, 0)),
    combine(ToDate(2016, 7, 3), dttime(11, 0, 0)),
    combine(ToDate(2016, 3, 31), dttime(9, 30, 0)),
    combine(ToDate(2016, 3, 1), dttime(0, 0, 0)),
    combine(ToDate(2015, 12, 24), dttime(14, 30, 0)) }

\* <<length, barSizeSetting, endDateTime>>
ResolveInputs ==
    ((1..MaxLength) \X BarSizeTexts \X EndInstants)
        \cup (LongLengths \X LongTexts \X LongEnds)

-----------------------------------------------------------------------------
(* ResolveWindow: calculate_durationStr called on its own                  *)

NowInstants == {combine(ToDate(2016, 11, 28), dttime(17, 0, 0))}
LocalTimezones == {0, 0 - 3 * 3600}

\* the state before any call; the holiday table is still to be set
\* no thread is inside generate_new_reqId
NoThreads == << >>

InitRest ==
    /\ exchange_info_source = trading_holidays_literal
    /\ threads = NoThreads
    /\ endDateTime_arg = None
    /\ now \in NowInstants
    /\ reqId = 0
    /\ pc = "idle"
    /\ length = None
    /\ barSizeSetting = None
    /\ ohlc = None
    /\ endDateTime = None
    /\ startDateTime = None
    /\ durationStr = None
    /\ historicalReq_date_str_fmt = None
    /\ request = {}
    /\ delivered = << >>
    /\ historical_data = << >>
    /\ have_we_received_all_historical_data_from_ib = FALSE
    /\ callback_raised = None
    /\ result = None

InitResolve ==
    /\ trading_holidays \in HolidayTables
    /\ local_timezone = 0
    /\ InitRest

\* the call's arguments and what it returned or raised, recorded
record_resolution(len, text, end, r) ==
    /\ length' = len
    /\ barSizeSetting' = text
    /\ endDateTime' = end
    /\ result' = r
    /\ startDateTime' = IF r.ok THEN r.value[1] ELSE None
    /\ durationStr' = IF r.ok THEN r.value[2] ELSE None
    /\ pc' = IF r.ok THEN "resolved" ELSE "raised"

ResolveWindow ==
    /\ pc = "idle"
    /\ \E in \in ResolveInputs :
        record_resolution(in[1], in[2], in[3],
                          calculate_durationStr(in[1], in[2], in[3], trading_holidays))
    /\ UNCHANGED <<exchange_info_source, trading_holidays, threads, now, local_timezone, reqId, ohlc,
                   endDateTime_arg,
                   historicalReq_date_str_fmt, request, delivered, historical_data,
                   have_we_received_all_historical_data_from_ib, callback_raised>>

NextResolve == ResolveWindow

SpecResolve == InitResolve /\ [][NextResolve]_vars

-----------------------------------------------------------------------------
(* helper_functions.py: format_endDateTime, fix_barSizeSetting_cruft       *)

\* datetime.strftime(dt, '%Y%m%d %H:%M:%S'): the fields the string spells
strftime(dt) ==
    <<YearOf(DateOf(dt)), MonthOf(DateOf(dt)), DayOf(DateOf(dt)),
      TimeOf(dt) \div 3600, (TimeOf(dt) \div 60) % 60, TimeOf(dt) % 60>>

NotADatetime == "TypeError: endDateTime must be either the string 'now' or a datetime object"
InTheFuture == "Exception: endDateTime is in the future"
NaiveAwareComparison == "TypeError: can't compare offset-naive and offset-aware datetimes"
UnboundEndExchange == "UnboundLocalError: end_exchange"

\* an endDateTime argument: [kind, wall], kind one of "now", "not_datetime",
\* "naive", "local" (tzinfo the machine's zone), "exchange" (tzinfo the
\* exchange's zone), "other" (any other tzinfo); wall its wall-clock reading.
\* The result is <<end_exchange, end_str_for_reqHistoricalData>>.
format_endDateTime(arg, clock, local_tz) ==
    IF arg.kind = "now"
    THEN Returned(<<clock - local_tz, strftime(clock)>>)
    ELSE IF arg.kind = "not_datetime" THEN Raised(NotADatetime)
    ELSE IF arg.kind = "naive"
    THEN (IF arg.wall > clock THEN Raised(InTheFuture)
          ELSE Returned(<<arg.wall, strftime(arg.wall + local_tz)>>))
    ELSE IF arg.kind = "local" THEN Raised(NaiveAwareComparison)
    ELSE IF arg.kind = "exchange" THEN Raised(NaiveAwareComparison)
    ELSE Raised(UnboundEndExchange)

fix_barSizeSetting_cruft(text) == IF text = "1 sec" THEN "1 secs" ELSE text

-----------------------------------------------------------------------------
(* helper_functions.py: calculate_historical_sma                           *)

\* list.sort(key=itemgetter(0), reverse=True): a stable sort, newest first;
\* entries with equal keys keep the order they had
RECURSIVE InsertDesc(_, _)
InsertDesc(sorted, x) ==
    IF sorted = << >> THEN <<x>>
    ELSE IF sorted[Len(sorted)][1] >= x[1] THEN Append(sorted, x)
    ELSE Append(InsertDesc(SubSeq(sorted, 1, Len(sorted) - 1), x), sorted[Len(sorted)])

RECURSIVE sort_newest_first(_)
sort_newest_first(values) ==
    IF values = << >> THEN << >>
    ELSE InsertDesc(sort_newest_first(SubSeq(values, 1, Len(values) - 1)),
                    values[Len(values)])

\* sum([t[1] for t in historical_values]) of values <<numerator, denominator>>
\* that share their denominator
RECURSIVE SumNumerators(_)
SumNumerators(values) ==
    IF values = << >> THEN 0
    ELSE values[1][2][1] + SumNumerators(Tail(values))

\* the IndexError of line 152, with the values its message lists
InsufficientData(values) == [ok |-> FALSE, error |-> "IndexError", values |-> values]

\* lines 145-158 on the sorted list: historical_values is its slice [:length]
mean_or_error(len, sorted, historical_values) ==
    IF Len(historical_values) < len
    THEN <<sorted, InsufficientData(historical_values)>>
    ELSE <<sorted,
           Returned(<<SumNumerators(historical_values),
                      historical_values[1][2][2] * Len(historical_values)>>)>>

slice_and_mean(len, sorted) ==
    mean_or_error(len, sorted, SubSeq(sorted, 1, Min(len, Len(sorted))))

\* a variant that averages whatever is there and fails only on an empty list
calculate_historical_sma_of_what_is_there(len, values) ==
    slice_and_mean(Min(len, Max(1, Len(values))), sort_newest_first(values))

\* returns <<the list as sorted in place, the value returned or the error raised>>;
\* the SMA is the fraction <<numerator, denominator>>
calculate_historical_sma(len, values) ==
    slice_and_mean(len, sort_newest_first(values))

-----------------------------------------------------------------------------
(* security.py: Security.get_historical_sma and its callback               *)

\* 'day' in barSizeSetting
Contains(s, sub) ==
    \E i \in 1..(Len(s) - Len(sub) + 1) : SubSeq(s, i, i + Len(sub) - 1) = sub

DayFormat == "%Y%m%d"
IntradayFormat == "%Y%m%d  %H:%M:%S"

\* the bars the data source holds: one per timestamp, prices in cents
HistoryDates == {ToDate(2016, 11, 23), ToDate(2016, 11, 25)}
HistoryTimes == {dttime(9, 30, 0), dttime(9, 31, 0)}

BarAt(date, time) ==
    LET base == (date - ToDate(2016, 11, 1)) * 100 + (time - dttime(9, 30, 0))
    IN  [open |-> base + 1, high |-> base + 7, low |-> base, close |-> base + 4]

\* a HistoricalData message: msg.date is a day string ('20161125'), an
\* intraday string ('20161125  09:30:00') or the 'finished-...' marker
BarMessage(fmt, date, time) ==
    [fmt |-> fmt, date |-> date, time |-> time, bar |-> BarAt(date, time)]
FinishedMessage == [fmt |-> "finished", date |-> 0, time |-> 0, bar |-> BarAt(0, 0)]

\* the messages the data source may send for a request: bars of the format
\* of its bar size, each timestamp once
MessagesFor(req) ==
    IF Contains(req.barSizeSetting, "day")
    THEN {BarMessage(DayFormat, d, 0) : d \in HistoryDates \cup {ToDate(2016, 11, 22)}}
    ELSE {BarMessage(IntradayFormat, d, t) : d \in HistoryDates, t \in HistoryTimes}

ValueError == "ValueError"
UnboundTargetValue == "UnboundLocalError: target_value"

\* datetime.strptime(msg.date, fmt).date()
strptime_date(msg, fmt) ==
    IF msg.fmt = fmt THEN Returned(DateOf(combine(msg.date, msg.time)))
    ELSE Raised(ValueError)

lower(field) ==
    IF field \in {"OPEN", "open"} THEN "open"
    ELSE IF field \in {"HIGH", "high"} THEN "high"
    ELSE IF field \in {"LOW", "low"} THEN "low"
    ELSE IF field \in {"CLOSE", "close", "Close"} THEN "close"
    ELSE IF field \in {"AVG", "avg"} THEN "avg"
    ELSE field

\* the if/elif chain of lines 110-119: the value as <<numerator, denominator>>
target_value(msg, field) ==
    IF lower(field) = "open" THEN Returned(<<msg.bar.open, 1>>)
    ELSE IF lower(field) = "high" THEN Returned(<<msg.bar.high, 1>>)
    ELSE IF lower(field) = "low" THEN Returned(<<msg.bar.low, 1>>)
    ELSE IF lower(field) = "close" THEN Returned(<<msg.bar.close, 1>>)
    ELSE IF lower(field) = "avg" THEN Returned(<<msg.bar.high + msg.bar.low, 2>>)
    ELSE Raised(UnboundTargetValue)

\* the entry appended, or the exception raised
_save_historicalData_price(msg, fmt, field) ==
    LET msg_dt == strptime_date(msg, fmt)
        value == target_value(msg, field)
    IN  IF ~msg_dt.ok THEN msg_dt
        ELSE IF ~value.ok THEN value
        ELSE Returned(<<msg_dt.value, value.value>>)

MaxBars == 3

EndDateTimeArgs ==
    {[kind |-> "now", wall |-> 0], [kind |-> "not_datetime", wall |-> 0]}
    \cup [kind : {"naive", "local", "exchange", "other"},
          wall : {combine(ToDate(2016, 11, 28), dttime(10, 0, 0)),
                  combine(ToDate(2016, 11, 29), dttime(10, 0, 0))}]

OhlcFields == {"CLOSE", "avg", "LOW", "VWAP"}
WhatToShow == {"MIDPOINT"}

\* main() of get_historical_sma.py: the exchange information is set from
\* exchange_info before any request
Init ==
    /\ trading_holidays = configured_trading_holidays
    /\ local_timezone \in LocalTimezones
    /\ InitRest

\* lines 78-92 with the values of lines 88 and 89 computed: eDT is what
\* format_endDateTime returned or raised, dur what calculate_durationStr did
\* (eDT itself when line 88 raised)
issue_request(len, text, field, show, eDT, dur) ==
    /\ length' = len
    /\ barSizeSetting' = text
    /\ ohlc' = field
    /\ historicalReq_date_str_fmt' =
           IF Contains(text, "day") THEN DayFormat ELSE IntradayFormat
    /\ have_we_received_all_historical_data_from_ib' = FALSE
    /\ historical_data' = << >>
    /\ reqId' = reqId + 1
    /\ endDateTime' = IF eDT.ok THEN eDT.value[1] ELSE None
    /\ startDateTime' = IF dur.ok THEN dur.value[1] ELSE None
    /\ durationStr' = IF dur.ok THEN dur.value[2] ELSE None
    /\ request' = IF dur.ok
                  THEN {[reqId |-> reqId + 1,
                         endDateTime |-> eDT.value[2],
                         durationStr |-> dur.value[2],
                         barSizeSetting |-> fix_barSizeSetting_cruft(text),
                         whatToShow |-> show, useRTH |-> 1, formatDate |-> 1]}
                  ELSE {}
    /\ result' = IF dur.ok THEN None ELSE dur
    /\ pc' = IF dur.ok THEN "waiting" ELSE "raised"

\* line 89, reached only when line 88 returned
durationStr_for(len, text, eDT, holidays) ==
    IF eDT.ok THEN calculate_durationStr(len, text, eDT.value[1], holidays) ELSE eDT

resolve_and_issue(len, text, field, show, eDT) ==
    issue_request(len, text, field, show, eDT,
                  durationStr_for(len, text, eDT, trading_holidays))

\* the calls a run makes, one after the other, on the same Security
MaxCalls == 2

\* the first call of a run draws from every length, text, field and end
\* instant; a later call asks for the same length and field again, for a day
\* size or an intraday size, ending now
CallLengths(calls_made) == IF calls_made = 0 THEN 1..MaxLength ELSE {length}

CallFields(calls_made) == IF calls_made = 0 THEN OhlcFields ELSE {ohlc}

CallTexts(calls_made) ==
    IF calls_made = 0 THEN BarSizeTexts ELSE {"1 day", "1 min"}

CallEndDateTimes(calls_made) ==
    IF calls_made = 0 THEN EndDateTimeArgs ELSE {[kind |-> "now", wall |-> 0]}

\* get_historical_sma up to the wait loop: lines 78-92.  The messages
\* delivered are counted anew for the new request.
get_historical_sma_request ==
    /\ pc \in {"idle", "returned", "raised"}
    /\ reqId < MaxCalls
    /\ delivered' = << >>
    /\ \E len \in CallLengths(reqId), text \in CallTexts(reqId),
          field \in CallFields(reqId), show \in WhatToShow,
          arg \in CallEndDateTimes(reqId) :
        /\ endDateTime_arg' = arg
        /\ resolve_and_issue(len, text, field, show,
                             format_endDateTime(arg, now, local_timezone))
    /\ UNCHANGED <<exchange_info_source, trading_holidays, threads, now,
                   local_timezone, callback_raised>>

\* a variant of the callback that takes every message for the last one
handle_message_closing_on_any(msg, saved) ==
    /\ delivered' = Append(delivered, msg)
    /\ historical_data' =
           IF saved.ok THEN Append(historical_data, saved.value) ELSE historical_data
    /\ have_we_received_all_historical_data_from_ib' = TRUE
    /\ callback_raised' =
           IF saved.ok \/ (saved.error = ValueError /\ msg.fmt = "finished")
           THEN None ELSE saved.error

\* the try/except of save_historical_data, lines 100-105, given what
\* _save_historicalData_price did with the message
handle_message(msg, saved) ==
    /\ delivered' = Append(delivered, msg)
    /\ historical_data' =
           IF saved.ok THEN Append(historical_data, saved.value) ELSE historical_data
    /\ have_we_received_all_historical_data_from_ib' =
           IF ~saved.ok /\ saved.error = ValueError /\ msg.fmt = "finished"
           THEN TRUE
           ELSE have_we_received_all_historical_data_from_ib
    /\ callback_raised' =
           IF saved.ok \/ (saved.error = ValueError /\ msg.fmt = "finished")
           THEN None ELSE saved.error

\* the connection delivers one message of the outstanding request and runs
\* the callback on it: save_historical_data, lines 98-105.  Each message is
\* delivered once, the completion message last, at most MaxBars bars.
save_historical_data ==
    /\ pc = "waiting"
    /\ FinishedMessage \notin {delivered[i] : i \in DOMAIN delivered}
    /\ \E req \in request : \E msg \in MessagesFor(req) \cup {FinishedMessage} :
        /\ msg \notin {delivered[i] : i \in DOMAIN delivered}
        /\ msg = FinishedMessage \/ Len(delivered) < MaxBars
        /\ handle_message(msg, _save_historicalData_price(
                                   msg, historicalReq_date_str_fmt, ohlc))
    /\ UNCHANGED <<exchange_info_source, trading_holidays, threads, now, local_timezone, reqId, pc, length,
                   barSizeSetting, ohlc, endDateTime_arg, endDateTime, startDateTime,
                   durationStr,
                   historicalReq_date_str_fmt, request, result>>

\* line 96 done: the list sorted in place, the value returned or the error raised
finish_call(r) ==
    /\ historical_data' = r[1]
    /\ result' = r[2]
    /\ pc' = IF r[2].ok THEN "returned" ELSE "raised"

\* the wait loop sees the flag set and get_historical_sma returns: lines 93-96
get_historical_sma_return ==
    /\ pc = "waiting"
    /\ have_we_received_all_historical_data_from_ib
    /\ finish_call(calculate_historical_sma(length, historical_data))
    /\ UNCHANGED <<exchange_info_source, trading_holidays, threads, now, local_timezone, reqId, length,
                   barSizeSetting, ohlc, endDateTime_arg, endDateTime, startDateTime,
                   durationStr,
                   historicalReq_date_str_fmt, request, delivered,
                   have_we_received_all_historical_data_from_ib, callback_raised>>

Next ==
    \/ get_historical_sma_request
    \/ save_historical_data
    \/ get_historical_sma_return

Spec == Init /\ [][Next]_vars

-----------------------------------------------------------------------------
(* exchange_info.py: the module as it runs at import, on any entries       *)

InvalidDateSyntax == "Exception: Syntax of date in the trading holidays list is invalid"

\* re.fullmatch('(\d{1,2})/(\d{1,2})/(\d{4})', date): the set of
\* <<group 1, group 2, group 3>> of the ways date matches (at most one)
fullmatch_date(date) ==
    {<<SubSeq(date, 1, a), SubSeq(date, a + 2, a + 1 + b), SubSeq(date, a + b + 3, Len(date))>> :
        <<a, b>> \in {ab \in (1..2) \X (1..2) :
            /\ Len(date) = ab[1] + ab[2] + 6
            /\ CharAt(date, ab[1] + 1) = "/"
            /\ CharAt(date, ab[1] + ab[2] + 2) = "/"
            /\ AllDigits(SubSeq(date, 1, ab[1]))
            /\ AllDigits(SubSeq(date, ab[1] + 2, ab[1] + 1 + ab[2]))
            /\ AllDigits(SubSeq(date, ab[1] + ab[2] + 3, Len(date)))}}

\* datetime.strptime('mm/dd/YYYY', '%m/%d/%Y').date() of the zero-padded
\* groups: ValueError when the month or the day does not exist (the dates of
\* this model start at 2000-01-01; no entry used is earlier)
strptime_mdY(month, day, year) ==
    IF /\ year >= 2000
       /\ month \in 1..12
       /\ day >= 1
       /\ day <= DaysInMonth(year, month)
    THEN Returned(ToDate(year, month, day))
    ELSE Raised(ValueError)

\* lines 112-122 for a date that matched: the date converted, the kind kept
kept_with_kind(holiday, converted_date) ==
    IF converted_date.ok THEN Returned(<<converted_date.value, holiday[2]>>)
    ELSE converted_date

append_converted(holiday, g) ==
    kept_with_kind(holiday, strptime_mdY(int(g[1]), int(g[2]), int(g[3])))

\* one turn of the for loop, lines 106-122: the entry converted, or the
\* exception raised
convert_holiday(holiday) ==
    IF fullmatch_date(strip(holiday[1])) = {} THEN Raised(InvalidDateSyntax)
    ELSE append_converted(holiday, CHOOSE g \in fullmatch_date(strip(holiday[1])) : TRUE)

RECURSIVE convert_from(_, _, _)

\* line 122, or the exception of this turn leaving the loop
convert_next(holidays, i, converted_trading_holidays, entry) ==
    IF entry.ok
    THEN convert_from(holidays, i + 1, Append(converted_trading_holidays, entry.value))
    ELSE entry

\* the for loop from entry i on, with the entries converted so far
convert_from(holidays, i, converted_trading_holidays) ==
    IF i > Len(holidays) THEN Returned(converted_trading_holidays)
    ELSE convert_next(holidays, i, converted_trading_holidays, convert_holiday(holidays[i]))

\* convert_trading_holiday_datestrings_into_date_objects on entries
\* <<date string, kind>> of any shape
convert_trading_holiday_datestrings(holidays) == convert_from(holidays, 1, << >>)

\* entries a configuration may hold
SourceEntries == {
    <<"11/24/2016", "full day">>, <<"11/25/2016", "early close">>,
    <<" 7/4/2016 ", "full day">>, <<"7/3/2016", "half day">>,
    <<"12/26/2016", "Full Day">>, <<"2016-07-04", "full day">>,
    <<"1/1/16", "full day">>, <<"13/1/2016", "full day">>,
    <<"2/30/2016", "early close">>, <<"", "full day">> }

MaxEntries == 2

SourceTables ==
    {<<e>> : e \in SourceEntries}
        \cup UNION {[1..n -> SourceEntries] : n \in 2..MaxEntries}

\* the interpreter starts to import exchange_info: nothing is converted yet
InitImport ==
    /\ exchange_info_source \in SourceTables
    /\ trading_holidays = None
    /\ threads = NoThreads
    /\ now \in NowInstants
    /\ local_timezone = 0
    /\ reqId = 0
    /\ pc = "importing"
    /\ length = None
    /\ barSizeSetting = None
    /\ ohlc = None
    /\ endDateTime_arg = None
    /\ endDateTime = None
    /\ startDateTime = None
    /\ durationStr = None
    /\ historicalReq_date_str_fmt = None
    /\ request = {}
    /\ delivered = << >>
    /\ historical_data = << >>
    /\ have_we_received_all_historical_data_from_ib = FALSE
    /\ callback_raised = None
    /\ result = None

\* lines 126-127 done: the name rebound, or the import aborted
finish_import(converted) ==
    /\ trading_holidays' = IF converted.ok THEN converted.value ELSE trading_holidays
    /\ result' = converted
    /\ pc' = IF converted.ok THEN "imported" ELSE "aborted"

\* import exchange_info: lines 126-127
import_exchange_info ==
    /\ pc = "importing"
    /\ finish_import(convert_trading_holiday_datestrings(exchange_info_source))
    /\ UNCHANGED <<exchange_info_source, threads, now, local_timezone, reqId, length,
                   barSizeSetting, ohlc, endDateTime_arg, endDateTime, startDateTime,
                   durationStr, historicalReq_date_str_fmt, request, delivered,
                   historical_data, have_we_received_all_historical_data_from_ib,
                   callback_raised>>

NextImport == import_exchange_info

SpecImport == InitImport /\ [][NextImport]_vars

-----------------------------------------------------------------------------
(* myib.py: generate_new_reqId called from several threads on one MyIb     *)

\* the threads that call generate_new_reqId on the same MyIb object
Threads == {"t1", "t2"}

\* the calls each thread makes
MaxCallsPerThread == 2

\* a thread outside generate_new_reqId: no lock held, the ids its calls
\* returned so far
NotCalling(ids) == [pc |-> "idle", lock |-> {}, loaded |-> 0, value |-> 0, returned |-> ids]

\* MyIb.__init__ has run (reqId = 0) and no thread has called yet
InitReqId ==
    /\ exchange_info_source = trading_holidays_literal
    /\ trading_holidays = configured_trading_holidays
    /\ threads = [t \in Threads |-> NotCalling(<< >>)]
    /\ now \in NowInstants
    /\ local_timezone = 0
    /\ reqId = 0
    /\ pc = "idle"
    /\ length = None
    /\ barSizeSetting = None
    /\ ohlc = None
    /\ endDateTime_arg = None
    /\ endDateTime = None
    /\ startDateTime = None
    /\ durationStr = None
    /\ historicalReq_date_str_fmt = None
    /\ request = {}
    /\ delivered = << >>
    /\ historical_data = << >>
    /\ have_we_received_all_historical_data_from_ib = FALSE
    /\ callback_raised = None
    /\ result = None

\* the Lock object that threading.Lock() creates in this call of thread t: a
\* new object in every call
new_Lock(t) == {<<t, Len(threads[t].returned) + 1>>}

\* line 29, with threading.Lock(): the call creates a Lock and acquires it,
\* which waits only while another thread holds this same Lock object
with_new_Lock(t) ==
    /\ threads[t].pc = "idle"
    /\ Len(threads[t].returned) < MaxCallsPerThread
    /\ \A u \in Threads \ {t} : threads[u].lock \cap new_Lock(t) = {}
    /\ threads' = [threads EXCEPT ![t].pc = "locked", ![t].lock = new_Lock(t)]
    /\ UNCHANGED reqId

\* line 30, self.reqId += 1, first half: the attribute is loaded
load_reqId(t) ==
    /\ threads[t].pc = "locked"
    /\ threads' = [threads EXCEPT ![t].pc = "loaded", ![t].loaded = reqId]
    /\ UNCHANGED reqId

\* line 30, second half: the sum is stored into the attribute
store_reqId(t) ==
    /\ threads[t].pc = "loaded"
    /\ reqId' = threads[t].loaded + 1
    /\ threads' = [threads EXCEPT ![t].pc = "stored"]

\* line 31, return self.reqId: the attribute is read for the return value
read_reqId(t) ==
    /\ threads[t].pc = "stored"
    /\ threads' = [threads EXCEPT ![t].pc = "read", ![t].value = reqId]
    /\ UNCHANGED reqId

\* the with block is left, the Lock released, and the call returns the value
return_reqId(t) ==
    /\ threads[t].pc = "read"
    /\ threads' = [threads EXCEPT ![t] = NotCalling(Append(threads[t].returned, threads[t].value))]
    /\ UNCHANGED reqId

\* one step of one thread inside generate_new_reqId, lines 23-31
generate_new_reqId ==
    /\ \E t \in Threads :
           \/ with_new_Lock(t)
           \/ load_reqId(t)
           \/ store_reqId(t)
           \/ read_reqId(t)
           \/ return_reqId(t)
    /\ UNCHANGED <<exchange_info_source, trading_holidays, now, local_timezone, pc, length, barSizeSetting, ohlc, endDateTime_arg, endDateTime, startDateTime, durationStr, historicalReq_date_str_fmt, request, delivered, historical_data, have_we_received_all_historical_data_from_ib, callback_raised, result>>

NextReqId == generate_new_reqId

SpecReqId == InitReqId /\ [][NextReqId]_vars

-----------------------------------------------------------------------------
(* What the specification says, stated without the code's operators        *)


\* a trading day: Monday to Friday and no FullDay record for the date
SpecIsTradingDay(d, holidays) ==
    /\ weekday(d) \in 0..4
    /\ ~\E i \in DOMAIN holidays : holidays[i] = <<d, FullDay>>

\* the close of a trading day: the early close on an EarlyClose day
SpecCloseTime(d, holidays) ==
    IF \E i \in DOMAIN holidays : holidays[i] = <<d, EarlyClose>>
    THEN exchange_early_close_time ELSE exchange_normal_close_time

SpecIsWithinTradingHours(dt, holidays) ==
    /\ SpecIsTradingDay(DateOf(dt), holidays)
    /\ exchange_opening_time <= TimeOf(dt)
    /\ TimeOf(dt) <= SpecCloseTime(DateOf(dt), holidays)

\* the number of trading days among the dates d1, ..., d2 - 1
TradingDaysIn(d1, d2, holidays) ==
    Cardinality({d \in d1..(d2 - 1) : SpecIsTradingDay(d, holidays)})

\* the trading seconds of day d that lie between the instants a and b
TradingSecsOfDay(d, a, b, holidays) ==
    IF ~SpecIsTradingDay(d, holidays) THEN 0
    ELSE Max(0, Min(b, combine(d, SpecCloseTime(d, holidays)))
                - Max(a, combine(d, exchange_opening_time)))

\* the trading seconds of the days d1..d2 that lie between a and b
RECURSIVE TradingSecsOfDays(_, _, _, _, _)
TradingSecsOfDays(d1, d2, a, b, holidays) ==
    IF d1 > d2 THEN 0
    ELSE IF d1 = d2 THEN TradingSecsOfDay(d1, a, b, holidays)
    ELSE TradingSecsOfDays(d1, (d1 + d2) \div 2, a, b, holidays)
         + TradingSecsOfDays((d1 + d2) \div 2 + 1, d2, a, b, holidays)

\* the trading seconds between the instants a and b
TradingSecsBetween(a, b, holidays) ==
    TradingSecsOfDays(DateOf(a), DateOf(b), a, b, holidays)

\* the grammar ^\d{1,2} (sec|secs|min|mins|hour|hours|day)$
SpecUnits == {"sec", "secs", "min", "mins", "hour", "hours", "day"}

GrammarAccepts(s) ==
    \E k \in 1..2 :
        /\ Len(s) >= k + 2
        /\ \A i \in 1..k : CharAt(s, i) \in Digits
        /\ CharAt(s, k + 1) = " "
        /\ SubSeq(s, k + 2, Len(s)) \in SpecUnits

\* of a text the grammar accepts: its magnitude, its unit, the seconds of
\* its unit
SpecMagnitude(s) ==
    LET k == CHOOSE n \in 1..2 : CharAt(s, n + 1) = " " IN int(SubSeq(s, 1, k))

SpecUnit(s) ==
    LET k == CHOOSE n \in 1..2 : CharAt(s, n + 1) = " " IN SubSeq(s, k + 2, Len(s))

SpecUnitSeconds(s) ==
    IF SpecUnit(s) \in {"sec", "secs"} THEN 1
    ELSE IF SpecUnit(s) \in {"min", "mins"} THEN 60
    ELSE 3600

\* the instant n calendar months before dt (the day clipped to the month)
MonthsBack(dt, n) ==
    LET total == YearOf(DateOf(dt)) * 12 + (MonthOf(DateOf(dt)) - 1) - n
        y == total \div 12
        m == (total % 12) + 1
    IN  combine(ToDate(y, m, Min(DayOf(DateOf(dt)), DaysInMonth(y, m))), TimeOf(dt))

\* the instant a duration descriptor reaches back to from end
SpanStart(end, d) ==
    IF d[2] = "S" THEN end - d[1]
    ELSE IF d[2] = "D" THEN end - d[1] * SecsPerDay
    ELSE IF d[2] = "W" THEN end - d[1] * 7 * SecsPerDay
    ELSE IF d[2] = "M" THEN MonthsBack(end, d[1])
    ELSE MonthsBack(end, 12 * d[1])

Called == pc \in {"resolved", "raised"}
IsDayRequest == pc = "resolved" /\ SpecUnit(strip(barSizeSetting)) = "day"
IsIntradayRequest == pc = "resolved" /\ SpecUnit(strip(barSizeSetting)) # "day"

\* the start before the fixed 2-second adjustment of line 89
RawStart == startDateTime + 2

\* the bars delivered to the outstanding request, with their full timestamps
DeliveredBars == {delivered[i] : i \in {j \in DOMAIN delivered : delivered[j].fmt # "finished"}}

Timestamp(msg) == combine(msg.date, msg.time)

\* the n delivered bars with the latest timestamps
LatestBars(n) ==
    CHOOSE S \in SUBSET DeliveredBars :
        /\ Cardinality(S) = n
        /\ \A a \in S, b \in DeliveredBars \ S : Timestamp(a) > Timestamp(b)

SpecFields == {"open", "high", "low", "close", "avg"}

\* twice the selected field of a bar (avg is the mean of high and low)
TwiceField(msg, field) ==
    IF field = "open" THEN 2 * msg.bar.open
    ELSE IF field = "high" THEN 2 * msg.bar.high
    ELSE IF field = "low" THEN 2 * msg.bar.low
    ELSE IF field = "close" THEN 2 * msg.bar.close
    ELSE msg.bar.high + msg.bar.low

RECURSIVE TwiceFieldSum(_, _)
TwiceFieldSum(S, field) ==
    IF S = {} THEN 0
    ELSE LET m == CHOOSE x \in S : TRUE
         IN  TwiceField(m, field) + TwiceFieldSum(S \ {m}, field)

\* Aggregate has run: the completion message arrived and the call ended
Aggregated == pc \in {"returned", "raised"} /\ have_we_received_all_historical_data_from_ib

-----------------------------------------------------------------------------
(* Claims                                                                  *)

\* C1 (as stated): after Resolve with bar size '1 day', the number of trading
\* days among the dates from the date of the returned start up to, not
\* including, the date of end is exactly count.
C1_TradingDaysFromReturnedStart ==
    (pc = "resolved" /\ barSizeSetting = "1 day")
        => TradingDaysIn(DateOf(startDateTime), DateOf(endDateTime), trading_holidays)
               = length

\* C1 (amended): after Resolve with bar size '1 day', the returned start is 2
\* seconds before midnight of a date D, and the number of trading days among
\* the dates from D up to, not including, the date of end is exactly count.
C1_TradingDaysFromRawStart ==
    (pc = "resolved" /\ barSizeSetting = "1 day")
        => /\ TimeOf(RawStart) = 0
           /\ TradingDaysIn(DateOf(RawStart), DateOf(endDateTime), trading_holidays)
                  = length

\* C1 witness: a 150-day window was resolved, and the day before the first
\* day of the window is itself a trading day.
C1_Witness ==
    /\ pc = "resolved" /\ barSizeSetting = "1 day" /\ length = 150
    /\ SpecIsTradingDay(DateOf(startDateTime), trading_holidays)

C3_DescriptorCoversWindow ==
    pc = "resolved" => SpanStart(endDateTime, durationStr) <= startDateTime

\* C3 witness: a window whose descriptor is in weeks was resolved.
C3_Witness == pc = "resolved" /\ durationStr[2] = "W" /\ durationStr[1] > 1

\* C6: for every date the resolved window covers, _is_date_a_trading_day is
\* true exactly when the date is Monday to Friday and is not a FullDay holiday.
C6_IsTradingDay ==
    pc = "resolved"
        => \A d \in DateOf(startDateTime)..DateOf(endDateTime) :
               _is_date_a_trading_day(d, trading_holidays)
                   <=> SpecIsTradingDay(d, trading_holidays)

\* C6 witness: the resolved window covers a Saturday or Sunday that the
\* holiday table lists, and a FullDay holiday on a weekday.
C6_Witness ==
    /\ pc = "resolved"
    /\ \E d \in DateOf(startDateTime)..DateOf(endDateTime) :
           weekday(d) \in {5, 6} /\ FirstMatch(d, trading_holidays) # 0
    /\ \E d \in DateOf(startDateTime)..DateOf(endDateTime) :
           weekday(d) \in 0..4 /\ <<d, FullDay>> \in
               {trading_holidays[i] : i \in DOMAIN trading_holidays}

\* C7 (as stated): every EarlyClose holiday of the configured table is a
\* trading day on which the trading hours are exactly open..early close, and
\* every FullDay holiday is no trading day.
C7_HolidayKinds ==
    trading_holidays = configured_trading_holidays
        => \A i \in DOMAIN trading_holidays :
               LET h == trading_holidays[i][1] IN
               IF trading_holidays[i][2] = EarlyClose
               THEN /\ _is_date_a_trading_day(h, trading_holidays)
                    /\ \A t \in EndTimes \cup {exchange_opening_time - 1,
                                               exchange_early_close_time + 1} :
                           _does_datetime_fall_during_trading_hours(
                               combine(h, t), trading_holidays)
                           <=> (exchange_opening_time <= t
                                /\ t <= exchange_early_close_time)
               ELSE ~_is_date_a_trading_day(h, trading_holidays)

\* C8 (as stated): Parse fails with the invalid-bar-size error exactly on the
\* texts that, trimmed, the grammar does not accept.
C8_ParseAcceptsGrammar ==
    Called => ((result = Raised(InvalidBarSizeSetting))
                   <=> ~GrammarAccepts(strip(barSizeSetting)))

\* C9 (as stated): for every text the grammar accepts, Resolve returns a
\* window and not an error.
C9_AcceptedTextResolves ==
    (Called /\ GrammarAccepts(strip(barSizeSetting))) => result.ok

\* C4 (as stated): when the request returned an SMA, it is the arithmetic
\* mean of the selected field over exactly the count delivered bars with the
\* latest timestamps.
C4_MeanOfLatestBars ==
    pc = "returned"
        => 2 * length * result.value[1]
               = result.value[2] * TwiceFieldSum(LatestBars(length), lower(ohlc))

\* C5: when Aggregate was given fewer than count bars, it raised the
\* insufficient-data error, returned no value, and the error lists every bar
\* it was given: as many entries as bars were delivered, one for each.
C5_InsufficientDataListsAllBars ==
    (Aggregated /\ Len(historical_data) < length)
        => /\ ~result.ok
           /\ result.error = "IndexError"
           /\ Len(result.values) = Len(historical_data)
           /\ \A i \in DOMAIN historical_data :
                  \E j \in DOMAIN result.values : result.values[j] = historical_data[i]
           /\ lower(ohlc) \in SpecFields
                  => /\ Len(result.values) = Cardinality(DeliveredBars)
                     /\ \A m \in DeliveredBars :
                            \E j \in DOMAIN result.values :
                                /\ result.values[j][1] = m.date
                                /\ 2 * result.values[j][2][1]
                                       = result.values[j][2][2]
                                             * TwiceField(m, lower(ohlc))

\* C5 witness: the completion message arrived after two bars of a request
\* for three, and the call ended.
C5_Witness ==
    /\ Aggregated
    /\ length = 3
    /\ Len(historical_data) = 2
    /\ Cardinality(DeliveredBars) = 2

\* C10 (as stated): whenever the text of a request parses to magnitude 1 and
\* unit second, the bar size in the request handed to the connection is
\* exactly '1 secs'.
C10_OneSecondForwardedAsSecs ==
    \A req \in request :
        _parse_barSizeSetting(barSizeSetting) = Returned(<<1, "sec">>)
            => req.barSizeSetting = "1 secs"

\* C11 (as stated): when a request was issued for an end instant with no
\* attached zone, the end used for window resolution is the passed wall time
\* taken as machine-local and converted to the exchange zone, and the end
\* string of the request spells the wall time that was passed in.
C11_NaiveEndIsMachineLocal ==
    \A req \in request :
        endDateTime_arg.kind = "naive"
            => /\ endDateTime = endDateTime_arg.wall - local_timezone
               /\ req.endDateTime = strftime(endDateTime_arg.wall)

\* the end instant of the call is later than the machine's clock
SpecEndIsInTheFuture ==
    IF endDateTime_arg.kind = "exchange"
    THEN endDateTime_arg.wall + local_timezone > now
    ELSE endDateTime_arg.wall > now

\* the errors format_endDateTime can raise
EndInstantErrors == {NotADatetime, InTheFuture, NaiveAwareComparison, UnboundEndExchange}

\* the call ended in format_endDateTime, with the error result.error
FailedOnEndInstant ==
    pc = "raised" /\ request = {} /\ result.error \in EndInstantErrors

\* C12 (as stated): for a naive end, an end tagged with the machine's zone
\* and an end tagged with the exchange's zone, the call fails with the
\* future-instant error when the end is later than the clock, and does not
\* fail on its end instant when it is not.
C12_FutureEndRejected ==
    (pc # "idle" /\ endDateTime_arg.kind \in {"naive", "local", "exchange"})
        => IF SpecEndIsInTheFuture
           THEN FailedOnEndInstant /\ result.error = InTheFuture
           ELSE ~FailedOnEndInstant

\* the date-string shape 1-2 digits / 1-2 digits / 4 digits, surrounding
\* whitespace allowed
SpecDateShape(s) ==
    \E a \in 1..2, b \in 1..2 :
        /\ Len(s) = a + b + 6
        /\ \A i \in 1..Len(s) :
               IF i \in {a + 1, a + b + 2} THEN CharAt(s, i) = "/"
               ELSE CharAt(s, i) \in Digits

SpecKinds == {"full day", "early close"}

SpecMalformed(entry) ==
    ~SpecDateShape(strip(entry[1])) \/ entry[2] \notin SpecKinds

\* C13 (as stated): when the import has run on a configuration with a
\* malformed entry, it has aborted and no holiday table was set.
C13_MalformedEntryAborts ==
    (pc \in {"imported", "aborted"}
     /\ \E i \in DOMAIN exchange_info_source : SpecMalformed(exchange_info_source[i]))
        => pc = "aborted" /\ trading_holidays = None

\* C14 (as stated): a request that was issued for a field other than open,
\* high, low, close and avg ends with the unknown-field error raised to the
\* caller of the request, not with a value and not with another error.
C14_UnknownFieldRaisedToCaller ==
    (pc \in {"returned", "raised"} /\ request # {} /\ lower(ohlc) \notin SpecFields)
        => ~result.ok /\ result.error = UnboundTargetValue

\* C15 (as stated): for bar size '1 day' the returned start is 00:00:00 of a
\* trading day D strictly before the date of end such that D is the count-th
\* trading day counted back from end's date.
C15_StartIsMidnightOfNthTradingDay ==
    (pc = "resolved" /\ barSizeSetting = "1 day")
        => /\ TimeOf(startDateTime) = 0
           /\ DateOf(startDateTime) < DateOf(endDateTime)
           /\ SpecIsTradingDay(DateOf(startDateTime), trading_holidays)
           /\ TradingDaysIn(DateOf(startDateTime), DateOf(endDateTime),
                            trading_holidays) = length

\* C15 (amended): for bar size '1 day' the returned start is 2 seconds before
\* 00:00:00 of the count-th trading day strictly before the date of end.
C15_StartIsTwoSecondsBeforeThatMidnight ==
    (pc = "resolved" /\ barSizeSetting = "1 day")
        => /\ TimeOf(startDateTime) = SecsPerDay - 2
           /\ DateOf(startDateTime) + 1 < DateOf(endDateTime)
           /\ SpecIsTradingDay(DateOf(startDateTime) + 1, trading_holidays)
           /\ TradingDaysIn(DateOf(startDateTime) + 1, DateOf(endDateTime),
                            trading_holidays) = length

\* C15 witness: with the configured holidays, end = 2016-11-28 16:00 and
\* count = 1, the start returned is 2016-11-24 23:59:58, 2 seconds before
\* midnight of Friday 2016-11-25 (an early-close day, after a weekend).
C15_Witness ==
    /\ pc = "resolved" /\ barSizeSetting = "1 day" /\ length = 1
    /\ trading_holidays = configured_trading_holidays
    /\ endDateTime = combine(ToDate(2016, 11, 28), dttime(16, 0, 0))
    /\ startDateTime = combine(ToDate(2016, 11, 24), dttime(23, 59, 58))

\* C16 (as stated): the step in which Aggregate runs leaves the bar sequence
\* it was given, self.historical_data, with the same bars in the same order,
\* whether it returns a value or fails.
C16_AggregateLeavesBarsUnchanged ==
    [][get_historical_sma_return => historical_data' = historical_data]_vars

\* the whole calendar months between start and end: the largest n such that
\* going back n months from end does not pass start
SpecWholeMonths(start, end) ==
    CHOOSE n \in 0..(12 * (YearOf(DateOf(end)) - YearOf(DateOf(start)) + 1)) :
        MonthsBack(end, n) >= start /\ MonthsBack(end, n + 1) < start

\* the seconds left between start and end after the whole months
SpecRestSeconds(start, end) == MonthsBack(end, SpecWholeMonths(start, end)) - start

\* the first matching row of the precedence table, for a difference of
\* months whole months and rest seconds
SpecTableRow(months, rest) ==
    IF months \div 12 > 0 THEN <<months \div 12 + 1, "Y">>
    ELSE IF months % 12 = 11 THEN <<1, "Y">>
    ELSE IF months % 12 > 0 THEN <<(months % 12) + 1, "M">>
    ELSE IF rest \div SecsPerDay = 27 THEN <<1, "M">>
    ELSE IF rest \div SecsPerDay >= 6 THEN <<(rest \div SecsPerDay) \div 7 + 1, "W">>
    ELSE IF rest \div SecsPerDay > 0 THEN <<rest \div SecsPerDay + 1, "D">>
    ELSE IF (rest \div 3600) % 24 = 23 THEN <<1, "D">>
    ELSE <<rest % SecsPerDay, "S">>

\* C17: the descriptor of every resolved window is the first matching row of
\* the precedence table applied to the broken-down calendar difference
\* between the returned start and end.
C17_DescriptorIsFirstMatchingRow ==
    pc = "resolved"
        => durationStr = SpecTableRow(SpecWholeMonths(startDateTime, endDateTime),
                                      SpecRestSeconds(startDateTime, endDateTime))

\* C17 witness: a window of a month or more and less than a year was
\* resolved whose difference has 27 or more days left over, so that the rows
\* below the month row would match as well.
C17_Witness ==
    /\ pc = "resolved"
    /\ durationStr[2] = "M" /\ durationStr[1] > 1
    /\ SpecRestSeconds(startDateTime, endDateTime) \div SecsPerDay >= 27

\* the messages delivered for the outstanding request before its completion
\* message
SpecBarsBeforeCompletion == SubSeq(delivered, 1, Len(delivered) - 1)

\* entry stands for bar m: its date, and the value of the field
SpecEntryOf(entry, m, field) ==
    /\ entry[1] = m.date
    /\ 2 * entry[2][1] = entry[2][2] * TwiceField(m, field)

\* C18: the step that ends the wait of get_historical_sma, in which it
\* aggregates, is taken once per request (nothing was aggregated for it
\* before, and the call is over after it), only after the completion message was received, which is the last
\* message delivered; every message before it is a bar of this request, and
\* with a recognised field the batch holds one entry for each of these bars,
\* in the order of delivery, and nothing else.
C18_AggregatesOnceOnClosedBatch ==
    [][(pc = "waiting" /\ pc' # "waiting")
          => /\ result = None
             /\ pc' \in {"returned", "raised"}
             /\ have_we_received_all_historical_data_from_ib
             /\ Len(delivered) >= 1
             /\ delivered[Len(delivered)] = FinishedMessage
             /\ \A req \in request :
                    /\ req.reqId = reqId
                    /\ \A i \in DOMAIN SpecBarsBeforeCompletion :
                           SpecBarsBeforeCompletion[i] \in MessagesFor(req)
             /\ lower(ohlc) \in SpecFields
                    => /\ Len(historical_data) = Len(SpecBarsBeforeCompletion)
                       /\ \A i \in DOMAIN SpecBarsBeforeCompletion :
                              SpecEntryOf(historical_data[i],
                                          SpecBarsBeforeCompletion[i], lower(ohlc))
      ]_vars

\* C18 witness: the second request of a run was aggregated on a batch of two
\* or more bars, delivered before its completion message.
C18_Witness ==
    /\ Aggregated
    /\ reqId = 2
    /\ lower(ohlc) \in SpecFields
    /\ Len(historical_data) >= 2
    /\ Len(delivered) = Len(historical_data) + 1

\* the calls of generate_new_reqId that have returned: thread and position
SpecReturnedCalls == {c \in Threads \X (1..MaxCallsPerThread) : c[2] <= Len(threads[c[1]].returned)}

\* C19 (as stated): the ids returned by any two calls of generate_new_reqId
\* on the same MyIb object differ, also when the calls of several threads
\* interleave.
C19_ReturnedReqIdsDiffer ==
    \A c \in SpecReturnedCalls : \A d \in SpecReturnedCalls \ {c} :
        threads[c[1]].returned[c[2]] # threads[d[1]].returned[d[2]]

====
